---- MODULE Spec2Model ----
(***************************************************************************)
(* State-machine model of nbiot/module.py (SaraN211Module): the AT command *)
(* executor (_at_action, _write, _read_line_until_contains), the URC       *)
(* dispatcher (_process_urc and its callbacks) and connect.                *)
(*                                                                         *)
(* bytes and str values are sequences of one-character strings; an         *)
(* optional value is None (<<>>) or Some(v) (<<v>>).                       *)
(***************************************************************************)
EXTENDS Integers, Sequences, FiniteSets, TLC

(* ------------------------------------------------------------------ *)
(* Bounds of the model                                                 *)
(* ------------------------------------------------------------------ *)
\* passes of one wait loop that leave the wait going
MaxReads == 1
\* unsolicited notifications the modem sends in one behaviour
MaxUrc == 1
\* inbound messages the modem announces in one behaviour, where it announces
\* messages with differing descriptors
MaxMsg == 2
\* lines before the OK in an answer to the radio statistics command
MaxStatLines == 2

(* ------------------------------------------------------------------ *)
(* Python built-ins on bytes / str                                     *)
(* ------------------------------------------------------------------ *)
None == <<>>
Some(v) == <<v>>

Min(a, b) == IF a < b THEN a ELSE b
Max(a, b) == IF a > b THEN a ELSE b

\* s[a:b] with Python's treatment of negative and out-of-range indices
PySlice(s, a, b) ==
    LET n  == Len(s)
        lo == IF a < 0 THEN Max(n + a, 0) ELSE Min(a, n)
        hi == IF b < 0 THEN Max(n + b, 0) ELSE Min(b, n)
    IN  SubSeq(s, lo + 1, hi)

\* s[a:]
PyFrom(s, a) == PySlice(s, a, Len(s))

startswith(s, p) == Len(s) >= Len(p) /\ SubSeq(s, 1, Len(p)) = p
endswith(s, p) == Len(s) >= Len(p) /\ SubSeq(s, Len(s) - Len(p) + 1, Len(s)) = p

\* p in s
contains(p, s) ==
    \/ p = <<>>
    \/ \E i \in 0..(Len(s) - Len(p)) :
          s[i + 1] = p[1] /\ SubSeq(s, i + 1, i + Len(p)) = p

\* s.find(c): 0-based index of the first c, -1 when absent
find(s, c) ==
    LET at == {i \in 1..Len(s) : s[i] = c}
    IN  IF at = {} THEN -1 ELSE (CHOOSE i \in at : \A j \in at : i <= j) - 1

\* s.split(c)
RECURSIVE split(_, _)
split(s, c) ==
    LET i == find(s, c)
    IN  IF i = -1 THEN <<s>>
        ELSE <<SubSeq(s, 1, i)>> \o split(SubSeq(s, i + 2, Len(s)), c)

Whitespace == {" ", "\r", "\n", "\t"}

RECURSIVE lstrip(_)
lstrip(s) == IF s # <<>> /\ Head(s) \in Whitespace THEN lstrip(Tail(s)) ELSE s

\* s.replace(c, "")
remove(s, c) == SelectSeq(s, LAMBDA x : x # c)

Digits == <<"0", "1", "2", "3", "4", "5", "6", "7", "8", "9">>
IsDigit(c) == \E i \in 1..10 : Digits[i] = c
\* int(chr(b)) for a digit
DigitVal(c) == (CHOOSE i \in 1..10 : Digits[i] = c) - 1

\* value of one byte, as bytes.__getitem__ returns it
Ord(c) ==
    IF IsDigit(c) THEN 48 + DigitVal(c)
    ELSE CASE c = "\n" -> 10 [] c = "\r" -> 13 [] c = " " -> 32
           [] c = "\"" -> 34 [] c = "+" -> 43 [] c = "," -> 44
           [] c = "." -> 46 [] c = ":" -> 58 [] c = "=" -> 61
           [] c = "?" -> 63 [] OTHER -> 65

\* str(n) for n >= 0
RECURSIVE str(_)
str(n) == IF n < 10 THEN <<Digits[n + 1]>> ELSE str(n \div 10) \o <<Digits[(n % 10) + 1]>>

\* int(s) for bytes or str s made of decimal digits; IsInt says whether int(s)
\* returns (it raises ValueError otherwise)
IsInt(s) == s # <<>> /\ \A i \in 1..Len(s) : IsDigit(s[i])
RECURSIVE int(_)
int(s) == IF Len(s) = 1 THEN DigitVal(s[1])
          ELSE 10 * int(SubSeq(s, 1, Len(s) - 1)) + DigitVal(s[Len(s)])

RECURSIVE rstrip(_)
rstrip(s) == IF s # <<>> /\ s[Len(s)] \in Whitespace THEN rstrip(SubSeq(s, 1, Len(s) - 1)) ELSE s

\* s.strip()
strip(s) == rstrip(lstrip(s))

\* int(s) for str s: decimal digits after an optional minus sign; IsSignedInt
\* says whether it returns
IsSignedInt(s) == IF s # <<>> /\ Head(s) = "-" THEN IsInt(Tail(s)) ELSE IsInt(s)
sint(s) == IF Head(s) = "-" THEN 0 - int(Tail(s)) ELSE int(s)

\* s.upper(), for the letters socket types are written with
upper(s) ==
    [i \in 1..Len(s) |->
        CASE s[i] = "u" -> "U" [] s[i] = "d" -> "D" [] s[i] = "p" -> "P"
          [] s[i] = "t" -> "T" [] s[i] = "c" -> "C" [] OTHER -> s[i]]

\* bytes.fromhex(s): IsHex says whether it returns (ValueError otherwise);
\* the bytes are their values
HexDigits == <<"0", "1", "2", "3", "4", "5", "6", "7", "8", "9", "A", "B", "C", "D", "E", "F">>
IsHexDigit(c) == \E i \in 1..16 : HexDigits[i] = c
HexVal(c) == (CHOOSE i \in 1..16 : HexDigits[i] = c) - 1
IsHex(s) == Len(s) % 2 = 0 /\ \A i \in 1..Len(s) : IsHexDigit(s[i])
fromhex(s) == [i \in 1..(Len(s) \div 2) |-> 16 * HexVal(s[2 * i - 1]) + HexVal(s[2 * i])]

CRLF == <<"\r", "\n">>

(* ------------------------------------------------------------------ *)
(* Byte strings of the protocol                                        *)
(* ------------------------------------------------------------------ *)
b_OK == <<"O", "K">>
b_ERROR == <<"E", "R", "R", "O", "R">>
b_blank == <<>>
\* a plain response line that merely contains the letters OK
b_TOKEN == <<"T", "O", "K", "E", "N">>
b_0 == <<"0">>
b_CSCON_1 == <<"+", "C", "S", "C", "O", "N", ":", " ", "1">>
b_CSCON_0 == <<"+", "C", "S", "C", "O", "N", ":", " ", "0">>
b_CEREG_1 == <<"+", "C", "E", "R", "E", "G", ":", " ", "1">>
b_CEREG_5 == <<"+", "C", "E", "R", "E", "G", ":", " ", "5">>
b_CGPADDR == <<"+", "C", "G", "P", "A", "D", "D", "R", ":", " ", "0", ",", "\"", "1", "0", ".", "0", ".", "0", ".", "1", "\"">>
b_NSONMI == <<"+", "N", "S", "O", "N", "M", "I", ":", " ", "0", ",", "4">>
b_CGDCONT == <<"+", "C", "G", "D", "C", "O", "N", "T", ":", " ", "0", ",", "\"", "I", "P", "\"", ",", "\"", "i", "o", "t", "\"">>
b_CGSN == <<"+", "C", "G", "S", "N", ":", " ", "4", "9", "0", "1">>
b_CCID == <<"+", "C", "C", "I", "D", ":", " ", "8", "9", "4", "6">>
b_CME_ERROR == <<"+", "C", "M", "E", " ", "E", "R", "R", "O", "R", ":", " ", "4">>
\* a notification no callback is registered for
b_NPSMR == <<"+", "N", "P", "S", "M", "R", ":", " ", "1">>

\* identifiers compared in _process_urc
id_CSCON == <<"C", "S", "C", "O", "N">>
id_CEREG == <<"C", "E", "R", "E", "G">>
id_CGPADDR == <<"C", "G", "P", "A", "D", "D", "R">>
id_NSONMI == <<"N", "S", "O", "N", "M", "I">>
id_CGDCONT == <<"C", "G", "D", "C", "O", "N", "T">>
id_CGSN == <<"C", "G", "S", "N">>
id_CCID == <<"C", "C", "I", "D">>
id_CME_ERROR == <<"C", "M", "E", " ", "E", "R", "R", "O", "R">>

\* the texts awaited by _await_connection
s_CEREG_5 == <<"C", "E", "R", "E", "G", ":", " ", "5">>
s_CEREG_1 == <<"C", "E", "R", "E", "G", ":", " ", "1">>

\* commands
AT_ENABLE_NETWORK_REGISTRATION == <<"A", "T", "+", "C", "E", "R", "E", "G", "=", "1">>
AT_COPS_AUTO == <<"A", "T", "+", "C", "O", "P", "S", "=", "0">>
AT_COPS_PREFIX == <<"A", "T", "+", "C", "O", "P", "S", "=", "1", ",", "2", ",", "\"">>
AT_CGPADDR == <<"A", "T", "+", "C", "G", "P", "A", "D", "D", "R">>
AT_CGDCONT_Q == <<"A", "T", "+", "C", "G", "D", "C", "O", "N", "T", "?">>
AT_CEREG_Q == <<"A", "T", "+", "C", "E", "R", "E", "G", "?">>
AT_CGSN_1 == <<"A", "T", "+", "C", "G", "S", "N", "=", "1">>
AT_CIMI == <<"A", "T", "+", "C", "I", "M", "I">>
AT_CCID == <<"A", "T", "+", "C", "C", "I", "D">>

\* message prefix of ATError
msg_at_error == <<"E", "r", "r", "o", "r", " ", "o", "n", " ", "A", "T", " ", "C", "o", "m", "m", "a", "n", "d", ":", " ">>

\* socket, message, ping and reboot commands and the texts they wait for
AT_REBOOT == <<"A", "T", "+", "N", "R", "B">>
AT_CLOSE_SOCKET == <<"A", "T", "+", "N", "S", "O", "C", "L">>
AT_NSOCR == <<"A", "T", "+", "N", "S", "O", "C", "R", "=", "\"", "D", "G", "R", "A", "M", "\"", ",", "1", "7">>
AT_NSORF_PREFIX == <<"A", "T", "+", "N", "S", "O", "R", "F", "=">>
AT_NPING_PREFIX == <<"A", "T", "+", "N", "P", "I", "N", "G", "=", "\"">>
s_NSONMI == <<"+", "N", "S", "O", "N", "M", "I">>
s_NPING == <<"+", "N", "P", "I", "N", "G">>
id_NPINGERR == <<"+", "N", "P", "I", "N", "G", "E", "R", "R", ":">>
id_NPING == <<"+", "N", "P", "I", "N", "G", ":">>
UDP == <<"U", "D", "P">>
TCP == <<"T", "C", "P">>

\* lines of the modem for these commands
b_1 == <<"1">>
b_NSONMI_1 == <<"+", "N", "S", "O", "N", "M", "I", ":", " ", "0", ",", "2">>
b_NSONMI_2 == <<"+", "N", "S", "O", "N", "M", "I", ":", " ", "1", ",", "3">>
b_NSORF == <<"0", ",", "\"", "1", ".", "1", ".", "1", ".", "1", "\"", ",", "7", ",", "2", ",", "\"", "A", "B", "0", "1", "\"", ",", "0">>
b_NPING == <<"+", "N", "P", "I", "N", "G", ":", " ", "1", ".", "1", ".", "1", ".", "1", ",", "5", "7", ",", "4", "1">>
b_NPINGERR_1 == <<"+", "N", "P", "I", "N", "G", "E", "R", "R", ":", " ", "1">>
b_REBOOTING == <<"R", "E", "B", "O", "O", "T", "I", "N", "G">>

\* radio statistics: the command, the tag of its answer lines, and lines
AT_RADIO_INFORMATION == <<"A", "T", "+", "N", "U", "E", "S", "T", "A", "T", "S", "=", "\"", "R", "A", "D", "I", "O", "\"">>
NUESTATS == <<"N", "U", "E", "S", "T", "A", "T", "S">>
RADIO == <<"R", "A", "D", "I", "O">>
b_STAT_signal == <<"N", "U", "E", "S", "T", "A", "T", "S", ":", " ", "\"", "R", "A", "D", "I", "O", "\"", ",", "\"", "S", "i", "g", "n", "a", "l", " ", "p", "o", "w", "e", "r", "\"", ",", "-", "6", "8", "2">>
b_STAT_ecl == <<"N", "U", "E", "S", "T", "A", "T", "S", ":", " ", "\"", "R", "A", "D", "I", "O", "\"", ",", "\"", "E", "C", "L", "\"", ",", "1">>
b_STAT_rsrp == <<"N", "U", "E", "S", "T", "A", "T", "S", ":", " ", "\"", "R", "A", "D", "I", "O", "\"", ",", "\"", "R", "S", "R", "P", "\"", ",", "-", "7", "0">>
b_STAT_other == <<"N", "U", "E", "S", "T", "A", "T", "X", ":", " ", "\"", "R", "A", "D", "I", "O", "\"", ",", "\"", "E", "C", "L", "\"", ",", "2">>

\* messages of PingError
err_map(err_cause) ==
    CASE err_cause = 1 -> "No response from remote host"
      [] err_cause = 2 -> "Failed to send ping request"
      [] OTHER -> "Error during ping"

(* ------------------------------------------------------------------ *)
(* Exceptions                                                          *)
(* ------------------------------------------------------------------ *)
\* class statements: the direct base of every exception class of module.py
Base(cls) ==
    CASE cls = "ConnectionTimeoutError" -> "ATTimeoutError"
      [] cls = "ATTimeoutError" -> "ATError"
      [] OTHER -> "Exception"

RECURSIVE IsInstance(_, _)
IsInstance(kind, cls) ==
    \/ kind = cls
    \/ kind # "Exception" /\ IsInstance(Base(kind), cls)

\* outcome of a callback: the module after it, or the exception it raised
Ok(s) == [exc |-> "none", self |-> s, arg |-> None]
Exc(kind, s, arg) == [exc |-> kind, self |-> s, arg |-> arg]

(* ------------------------------------------------------------------ *)
(* Module State                                                        *)
(* ------------------------------------------------------------------ *)
\* SaraN211Module(serial_port, roaming, echo)
__init__(roaming, echo) ==
    [ echo |-> echo, roaming |-> roaming,
      ip |-> None, connected |-> FALSE,
      sockets |-> {}, available_messages |-> <<>>,
      imei |-> None, imsi |-> None, iccid |-> None, apn |-> None,
      registration_status |-> 0,
      radio_signal_power |-> None, radio_total_power |-> None,
      radio_tx_power |-> None, radio_tx_time |-> None,
      radio_rx_time |-> None, radio_cell_id |-> None,
      radio_ecl |-> None, radio_snr |-> None, radio_earfcn |-> None,
      radio_pci |-> None, radio_rsrq |-> None, radio_rsrp |-> None ]

Fields == DOMAIN __init__(FALSE, FALSE)

\* faulty variant of registered: the code of home registration whatever the
\* roaming mode
registered_home_only(s) ==
    LET register_code == 1
    IN  s.registration_status = register_code

\* the registered property
registered(s) ==
    LET register_code == IF s.roaming THEN 5 ELSE 1
    IN  s.registration_status = register_code

(* ------------------------------------------------------------------ *)
(* URC dispatcher                                                      *)
(* ------------------------------------------------------------------ *)
Last(s) == s[Len(s)]

\* bool(int(urc[-1])): urc is bytes, so urc[-1] is the value of the byte
_update_connection_status_callback(s, urc) ==
    LET status == (Ord(Last(urc)) # 0)
    IN  Ok([s EXCEPT !.connected = status])

\* int(chr(urc[-1]))
_update_eps_reg_status_callback(s, urc) ==
    IF IsDigit(Last(urc))
    THEN Ok([s EXCEPT !.registration_status = DigitVal(Last(urc))])
    ELSE Exc("ValueError", s, urc)

_update_ip_address_callback(s, urc) ==
    LET ip_addr == PySlice(urc, find(urc, "\"") + 1, -1)
    IN  Ok([s EXCEPT !.ip = Some(ip_addr)])

\* _urc, data = urc.split(b":")
_add_available_message_callback(s, urc) ==
    LET parts == split(urc, ":")
    IN  IF Len(parts) # 2 THEN Exc("ValueError", s, urc)
        ELSE Ok([s EXCEPT !.available_messages = Append(@, lstrip(parts[2]))])

_update_apn_callback(s, urc) ==
    LET values == split(urc, ",")
    IN  IF Len(values) < 3 THEN Exc("IndexError", s, urc)
        ELSE Ok([s EXCEPT !.apn = Some(remove(values[3], "\""))])

_update_imei_callback(s, urc) ==
    LET parts == split(urc, ":")
    IN  IF Len(parts) < 2 THEN Exc("IndexError", s, urc)
        ELSE Ok([s EXCEPT !.imei = Some(lstrip(parts[2]))])

_update_iccid_callback(s, urc) ==
    LET parts == split(urc, ":")
    IN  IF Len(parts) < 2 THEN Exc("IndexError", s, urc)
        ELSE Ok([s EXCEPT !.iccid = Some(lstrip(parts[2]))])

\* faulty variant of _handle_cme_error: the hardware error is only logged
_handle_cme_error_logged(s, urc) == Ok(s)

_handle_cme_error(s, urc) == Exc("CMEError", s, urc)

\* urc_id = _urc[1 : _urc.find(":")]
urc_id_of(urc) == PySlice(urc, 1, find(urc, ":"))

\* faulty variant of _process_urc: the CGSN branch calls the ICCID callback
_process_urc_wrong_callback(s, urc) ==
    LET urc_id == urc_id_of(urc)
    IN  CASE urc_id = id_CSCON -> _update_connection_status_callback(s, urc)
          [] urc_id = id_CEREG -> _update_eps_reg_status_callback(s, urc)
          [] urc_id = id_CGPADDR -> _update_ip_address_callback(s, urc)
          [] urc_id = id_NSONMI -> _add_available_message_callback(s, urc)
          [] urc_id = id_CGDCONT -> _update_apn_callback(s, urc)
          [] urc_id = id_CGSN -> _update_iccid_callback(s, urc)
          [] urc_id = id_CCID -> _update_iccid_callback(s, urc)
          [] urc_id = id_CME_ERROR -> _handle_cme_error(s, urc)
          [] OTHER -> Ok(s)

_process_urc(s, urc) ==
    LET urc_id == urc_id_of(urc)
    IN  CASE urc_id = id_CSCON -> _update_connection_status_callback(s, urc)
          [] urc_id = id_CEREG -> _update_eps_reg_status_callback(s, urc)
          [] urc_id = id_CGPADDR -> _update_ip_address_callback(s, urc)
          [] urc_id = id_NSONMI -> _add_available_message_callback(s, urc)
          [] urc_id = id_CGDCONT -> _update_apn_callback(s, urc)
          [] urc_id = id_CGSN -> _update_imei_callback(s, urc)
          [] urc_id = id_CCID -> _update_iccid_callback(s, urc)
          [] urc_id = id_CME_ERROR -> _handle_cme_error(s, urc)
          [] OTHER -> Ok(s)

(* ------------------------------------------------------------------ *)
(* Command executor                                                    *)
(* ------------------------------------------------------------------ *)
_remove_line_ending(line) ==
    IF endswith(line, CRLF) THEN PySlice(line, 0, -2) ELSE line

\* data_to_send of _write
data_to_send_of(data) == IF endswith(data, CRLF) THEN data ELSE data \o CRLF

\* faulty variant of _write: the echo is cut off without being compared
_write_unchecked_echo(echo, data, ack) ==
    LET data_to_send == data_to_send_of(data)
        wanted_echo == PySlice(data_to_send, 0, -2) \o <<"\r">>
        ack1 == IF echo THEN PyFrom(ack, Len(wanted_echo)) ELSE ack
    IN  IF ack1 # CRLF THEN [exc |-> "ValueError", why |-> "ack", arg |-> ack1]
        ELSE [exc |-> "none", why |-> "none", arg |-> None]

\* faulty variant of _write: what follows the echo is not compared with the
\* blank line, so any first line is taken for the acknowledgment
_write_unchecked_ack(echo, data, ack) ==
    LET data_to_send == data_to_send_of(data)
        _echo == PySlice(ack, 0, -2)
        wanted_echo == PySlice(data_to_send, 0, -2) \o <<"\r">>
    IN  IF echo /\ _echo # wanted_echo THEN [exc |-> "ValueError", why |-> "echo", arg |-> _echo]
        ELSE [exc |-> "none", why |-> "none", arg |-> None]

\* _write after serial.write: ack is what serial.read_until() returned.
\* The outcome is the exception raised, or "none" when the ack was accepted.
_write(echo, data, ack) ==
    LET data_to_send == data_to_send_of(data)
        _echo == PySlice(ack, 0, -2)
        wanted_echo == PySlice(data_to_send, 0, -2) \o <<"\r">>
        ack1 == IF echo THEN PyFrom(ack, Len(wanted_echo)) ELSE ack
    IN  IF echo /\ _echo # wanted_echo THEN [exc |-> "ValueError", why |-> "echo", arg |-> _echo]
        ELSE IF ack1 # CRLF THEN [exc |-> "ValueError", why |-> "ack", arg |-> ack1]
        ELSE [exc |-> "none", why |-> "none", arg |-> None]

\* faulty variant of expired: the timeout is taken for milliseconds
expired_in_ms(duration, timeout) == duration * 1000 > timeout * 1000 * 1000

\* duration > timeout, the test of both timeout checks of the loop
expired(duration, timeout) == duration > timeout

\* faulty variant of classify: notifications are kept whatever capture_urc is
classify_keeps_urc(s, capture_urc, irc_list, line) ==
    IF startswith(line, <<"+">>)
    THEN LET urc == _process_urc(s, line)
         IN  [exc |-> urc.exc, arg |-> urc.arg, self |-> urc.self,
              irc_list |-> Append(irc_list, line)]
    ELSE IF line = b_OK
    THEN [exc |-> "none", arg |-> None, self |-> s, irc_list |-> irc_list]
    ELSE IF startswith(line, b_ERROR)
    THEN [exc |-> "ATError", arg |-> msg_at_error \o line, self |-> s, irc_list |-> irc_list]
    ELSE IF line = <<>>
    THEN [exc |-> "none", arg |-> None, self |-> s, irc_list |-> irc_list]
    ELSE [exc |-> "none", arg |-> None, self |-> s, irc_list |-> Append(irc_list, line)]

\* faulty variant of classify: the branch of the ERROR prefix is missing
classify_without_error(s, capture_urc, irc_list, line) ==
    IF startswith(line, <<"+">>)
    THEN LET urc == _process_urc(s, line)
         IN  [exc |-> urc.exc, arg |-> urc.arg, self |-> urc.self,
              irc_list |-> IF capture_urc THEN Append(irc_list, line) ELSE irc_list]
    ELSE IF line = b_OK
    THEN [exc |-> "none", arg |-> None, self |-> s, irc_list |-> irc_list]
    ELSE IF line = <<>>
    THEN [exc |-> "none", arg |-> None, self |-> s, irc_list |-> irc_list]
    ELSE [exc |-> "none", arg |-> None, self |-> s, irc_list |-> Append(irc_list, line)]

\* The if/elif chain of the loop body: what the line does to the module and
\* to irc_list, or the exception it raises.
classify(s, capture_urc, irc_list, line) ==
    IF startswith(line, <<"+">>)
    THEN LET urc == _process_urc(s, line)
         IN  [exc |-> urc.exc, arg |-> urc.arg, self |-> urc.self,
              irc_list |-> IF capture_urc THEN Append(irc_list, line) ELSE irc_list]
    ELSE IF line = b_OK
    THEN [exc |-> "none", arg |-> None, self |-> s, irc_list |-> irc_list]
    ELSE IF startswith(line, b_ERROR)
    THEN [exc |-> "ATError", arg |-> msg_at_error \o line, self |-> s, irc_list |-> irc_list]
    ELSE IF line = <<>>
    THEN [exc |-> "none", arg |-> None, self |-> s, irc_list |-> irc_list]
    ELSE [exc |-> "none", arg |-> None, self |-> s, irc_list |-> Append(irc_list, line)]

\* faulty variant of loop_body: a pass that finds the timeout exceeded leaves
\* the loop as if the awaited text had been read
loop_body_timeout_breaks(s, _slice, capture_urc, timeout, irc_list, data_list, data, duration) ==
    LET line == _remove_line_ending(data)
        cls == classify(s, capture_urc, irc_list, line)
    IN  IF cls.exc # "none"
        THEN [ctl |-> "raise", exc |-> cls.exc, arg |-> cls.arg, self |-> cls.self,
              irc_list |-> cls.irc_list, data_list |-> data_list]
        ELSE IF contains(_slice, line) \/ expired(duration, timeout)
        THEN [ctl |-> "break", exc |-> "none", arg |-> None, self |-> cls.self,
              irc_list |-> cls.irc_list, data_list |-> Append(data_list, line)]
        ELSE [ctl |-> "continue", exc |-> "none", arg |-> None, self |-> cls.self,
              irc_list |-> cls.irc_list, data_list |-> Append(data_list, line)]

\* One pass through the body of the while loop of _read_line_until_contains
\* for data that serial.read_until() returned; duration is
\* time.time() - start_time when the pass reaches its last statement.
\* ctl says how the pass leaves the loop body: "break", "raise" or "continue".
loop_body(s, _slice, capture_urc, timeout, irc_list, data_list, data, duration) ==
    LET line == _remove_line_ending(data)
        cls == classify(s, capture_urc, irc_list, line)
    IN  IF cls.exc # "none"
        THEN [ctl |-> "raise", exc |-> cls.exc, arg |-> cls.arg, self |-> cls.self,
              irc_list |-> cls.irc_list, data_list |-> data_list]
        ELSE IF contains(_slice, line)
        THEN [ctl |-> "break", exc |-> "none", arg |-> None, self |-> cls.self,
              irc_list |-> cls.irc_list, data_list |-> Append(data_list, line)]
        ELSE IF expired(duration, timeout)
        THEN [ctl |-> "raise", exc |-> "ATTimeoutError", arg |-> None, self |-> cls.self,
              irc_list |-> cls.irc_list, data_list |-> Append(data_list, line)]
        ELSE [ctl |-> "continue", exc |-> "none", arg |-> None, self |-> cls.self,
              irc_list |-> cls.irc_list, data_list |-> Append(data_list, line)]

\* the except branch of the loop: serial.read_until() raised SerialTimeoutException
loop_except(timeout, duration) ==
    IF expired(duration, timeout) THEN "raise" ELSE "continue"

(* ------------------------------------------------------------------ *)
(* Public operations as step programs                                  *)
(* ------------------------------------------------------------------ *)
\* what an operation does next: issue _at_action(cmd, timeout, capture),
\* call _read_line_until_contains(slice, capture, timeout), return or raise
DoAt(s, cmd, tmo, cap) ==
    [do |-> "at", self |-> s, cmd |-> cmd, slice |-> b_OK, timeout |-> tmo,
     capture |-> cap, exc |-> "none", value |-> None]
DoWait(s, sl, cap, tmo) ==
    [do |-> "wait", self |-> s, cmd |-> <<>>, slice |-> sl, timeout |-> tmo,
     capture |-> cap, exc |-> "none", value |-> None]
DoReturn(s, v) ==
    [do |-> "return", self |-> s, cmd |-> <<>>, slice |-> <<>>, timeout |-> 0,
     capture |-> FALSE, exc |-> "return", value |-> v]
DoRaise(s, kind, arg) ==
    [do |-> "raise", self |-> s, cmd |-> <<>>, slice |-> <<>>, timeout |-> 0,
     capture |-> FALSE, exc |-> kind, value |-> arg]

\* timeout defaults and arguments
AtTimeout == 10
CopsTimeout == 300
AwaitTimeout == 180
ReadDefaultTimeout == 5
PingTimeout == 20

\* faulty variant of connect_begin: the test of registered is missing
connect_begin_unconditional(s, operator, roaming) ==
    LET at_command == IF operator # 0
                      THEN AT_COPS_PREFIX \o str(operator) \o <<"\"">>
                      ELSE AT_COPS_AUTO
    IN  DoAt(s, at_command, CopsTimeout, FALSE)

\* connect(operator, roaming) up to its first command
connect_begin(s, operator, roaming) ==
    IF registered(s)
    THEN DoReturn(s, None)
    ELSE LET at_command == IF operator # 0
                           THEN AT_COPS_PREFIX \o str(operator) \o <<"\"">>
                           ELSE AT_COPS_AUTO
         IN  DoAt(s, at_command, CopsTimeout, FALSE)

\* _await_connection(roaming, timeout=180)
_await_connection(s, roaming) ==
    IF roaming
    THEN DoWait(s, s_CEREG_5, FALSE, AwaitTimeout)
    ELSE DoWait(s, s_CEREG_1, FALSE, AwaitTimeout)

\* connect and read_module_status after the wait of step st returned irc
connect_after(s, st, irc, roaming) ==
    CASE st = 0 -> _await_connection(s, roaming \/ s.roaming)
      [] st = 1 -> DoAt(s, AT_CGPADDR, AtTimeout, FALSE)
      [] st = 2 -> DoAt(s, AT_CGDCONT_Q, AtTimeout, FALSE)
      [] st = 3 -> DoAt(s, AT_CEREG_Q, AtTimeout, FALSE)
      [] st = 4 -> DoAt(s, AT_CGSN_1, AtTimeout, FALSE)
      [] st = 5 -> IF registered(s) THEN DoAt(s, AT_CIMI, AtTimeout, FALSE)
                   ELSE DoReturn(s, None)
      [] st = 6 -> IF irc = <<>> THEN DoRaise(s, "IndexError", None)
                   ELSE DoAt([s EXCEPT !.imsi = Some(irc[1])], AT_CCID, AtTimeout, FALSE)
      [] OTHER -> DoReturn(s, None)

\* _at_action returns irc
at_action_after(s, irc) == DoReturn(s, Some(irc))

\* create_socket(port, socket_type) up to its command; the command is the one
\* _create_upd_socket builds (_create_tcp_socket raises NotImplementedError)
SUPPORTED_SOCKET_TYPES == {UDP}

\* faulty variant of create_socket_begin: the socket type is not looked at
create_socket_begin_any_type(s, port, socket_type) ==
    LET at_command == IF port # 0 THEN AT_NSOCR \o <<",">> \o str(port) ELSE AT_NSOCR
    IN  DoAt(s, at_command, AtTimeout, FALSE)

create_socket_begin(s, port, socket_type) ==
    IF upper(socket_type) \notin SUPPORTED_SOCKET_TYPES
    THEN DoRaise(s, "ValueError", socket_type)
    ELSE IF upper(socket_type) = UDP
    THEN LET at_command == IF port # 0 THEN AT_NSOCR \o <<",">> \o str(port) ELSE AT_NSOCR
         IN  DoAt(s, at_command, AtTimeout, FALSE)
    ELSE DoRaise(s, "NotImplementedError", socket_type)

\* faulty variant of create_socket_after: the socket is returned without
\* being put into the table
create_socket_after_unregistered(s, response) ==
    IF response = <<>> THEN DoRaise(s, "IndexError", None)
    ELSE IF ~IsInt(response[1]) THEN DoRaise(s, "ValueError", response[1])
    ELSE LET socket_id == int(response[1])
         IN  DoReturn(s, Some(socket_id))

\* _create_upd_socket after its command returned response, then the rest of
\* create_socket; the table is modelled by its keys
create_socket_after(s, response) ==
    IF response = <<>> THEN DoRaise(s, "IndexError", None)
    ELSE IF ~IsInt(response[1]) THEN DoRaise(s, "ValueError", response[1])
    ELSE LET socket_id == int(response[1])
         IN  DoReturn([s EXCEPT !.sockets = @ \cup {socket_id}], Some(socket_id))

\* faulty variant of close_socket_begin: the table is not consulted
close_socket_begin_unchecked(s, socket_id) ==
    DoAt(s, AT_CLOSE_SOCKET \o <<"=">> \o str(socket_id), AtTimeout, FALSE)

\* close_socket(socket_id) up to its command
close_socket_begin(s, socket_id) ==
    IF socket_id \notin s.sockets
    THEN DoRaise(s, "ValueError", None)
    ELSE DoAt(s, AT_CLOSE_SOCKET \o <<"=">> \o str(socket_id), AtTimeout, FALSE)

\* faulty variant of close_socket_after: the reference is kept
close_socket_after_keeps(s, socket_id, result) == DoReturn(s, Some(result))

\* close_socket after its command returned result
close_socket_after(s, socket_id, result) ==
    DoReturn([s EXCEPT !.sockets = @ \ {socket_id}], Some(result))

\* _parse_udp_response(message): the payload, or the exception raised
_parse_udp_response(message) ==
    LET _message == remove(message, "\"")
        parts == split(_message, ",")
    IN  IF Len(parts) # 6 THEN [exc |-> "ValueError", value |-> None]
        ELSE IF ~IsHex(parts[5]) THEN [exc |-> "ValueError", value |-> None]
        ELSE [exc |-> "none", value |-> Some(fromhex(parts[5]))]

\* receive_udp_data() begins with the wait for +NSONMI
receive_udp_data_begin(s) == DoWait(s, s_NSONMI, FALSE, ReadDefaultTimeout)

\* faulty variant of receive_udp_data_after: the newest descriptor is popped
receive_udp_data_after_lifo(s, st, irc) ==
    CASE st = 0 ->
           IF s.available_messages = <<>> THEN DoRaise(s, "IndexError", None)
           ELSE LET message_info == s.available_messages[Len(s.available_messages)]
                IN  DoAt([s EXCEPT !.available_messages = SubSeq(@, 1, Len(@) - 1)],
                         AT_NSORF_PREFIX \o message_info, AtTimeout, FALSE)
      [] OTHER ->
           IF irc = <<>> THEN DoRaise(s, "IndexError", None)
           ELSE LET response == _parse_udp_response(irc[1])
                IN  IF response.exc # "none" THEN DoRaise(s, response.exc, None)
                    ELSE DoReturn(s, response.value)

\* receive_udp_data after the wait of step st returned irc
receive_udp_data_after(s, st, irc) ==
    CASE st = 0 ->
           IF s.available_messages = <<>> THEN DoRaise(s, "IndexError", None)
           ELSE LET message_info == Head(s.available_messages)
                IN  DoAt([s EXCEPT !.available_messages = Tail(@)],
                         AT_NSORF_PREFIX \o message_info, AtTimeout, FALSE)
      [] OTHER ->
           IF irc = <<>> THEN DoRaise(s, "IndexError", None)
           ELSE LET response == _parse_udp_response(irc[1])
                IN  IF response.exc # "none" THEN DoRaise(s, response.exc, None)
                    ELSE DoReturn(s, response.value)

\* _search_urc_result(urc_id, capture_urc_response): the first item with the
\* prefix, or None
_search_urc_result(urc_id, capture_urc_response) ==
    LET at == {i \in 1..Len(capture_urc_response) :
                  startswith(capture_urc_response[i], urc_id)}
    IN  IF at = {} THEN None
        ELSE Some(capture_urc_response[CHOOSE i \in at : \A j \in at : i <= j])

\* ping(ip) up to its command
ping_begin(s, ip) == DoAt(s, AT_NPING_PREFIX \o ip \o <<"\"">>, AtTimeout, FALSE)

\* faulty variant of ping_after: the two fields are returned the other way round
ping_after_swapped(s, st, irc) ==
    CASE st = 0 -> DoWait(s, s_NPING, TRUE, PingTimeout)
      [] OTHER ->
           LET ping_err == _search_urc_result(id_NPINGERR, irc)
               ping_response == _search_urc_result(id_NPING, irc)
           IN  IF ping_err # None
               THEN LET t == rstrip(ping_err[1])
                    IN  IF ~IsDigit(t[Len(t)]) THEN DoRaise(s, "ValueError", None)
                        ELSE DoRaise(s, "PingError", err_map(DigitVal(t[Len(t)])))
               ELSE IF ping_response # None
               THEN LET resp == split(ping_response[1], ",")
                    IN  IF Len(resp) < 3 THEN DoRaise(s, "IndexError", None)
                        ELSE DoReturn(s, Some(<<resp[3], resp[2]>>))
               ELSE DoReturn(s, None)

\* ping after the wait of step st returned irc (result, for the second wait)
ping_after(s, st, irc) ==
    CASE st = 0 -> DoWait(s, s_NPING, TRUE, PingTimeout)
      [] OTHER ->
           LET ping_err == _search_urc_result(id_NPINGERR, irc)
               ping_response == _search_urc_result(id_NPING, irc)
           IN  IF ping_err # None
               THEN LET t == rstrip(ping_err[1])
                    IN  IF ~IsDigit(t[Len(t)]) THEN DoRaise(s, "ValueError", None)
                        ELSE DoRaise(s, "PingError", err_map(DigitVal(t[Len(t)])))
               ELSE IF ping_response # None
               THEN LET resp == split(ping_response[1], ",")
                    IN  IF Len(resp) < 3 THEN DoRaise(s, "IndexError", None)
                        ELSE DoReturn(s, Some(<<resp[2], resp[3]>>))
               ELSE DoReturn(s, None)

\* faulty variant of _reset_after_reboot: the socket table is kept
_reset_after_reboot_keeps_sockets(s) ==
    [s EXCEPT !.registration_status = 0, !.connected = FALSE, !.ip = None,
              !.available_messages = <<>>]

_reset_after_reboot(s) ==
    [s EXCEPT !.registration_status = 0, !.connected = FALSE, !.ip = None,
              !.sockets = {}, !.available_messages = <<>>]

\* reboot() up to its command
reboot_begin(s) == DoAt(s, AT_REBOOT, AtTimeout, FALSE)

\* reboot after its command returned: the flushes of the serial port are part
\* of the action, and the reset
reboot_after(s) == DoReturn(_reset_after_reboot(s), None)

\* faulty variant of _parse_radio_stats_string: the tag is not looked at
_parse_radio_stats_string_any_tag(stats_byte_string) ==
    LET parts == split(stats_byte_string, ":")
    IN  IF Len(parts) < 2 THEN [exc |-> "IndexError", stat |-> None]
        ELSE LET data == remove(strip(parts[2]), "\"")
                 data_parts == split(data, ",")
             IN  IF Len(data_parts) < 3 THEN [exc |-> "IndexError", stat |-> None]
                 ELSE IF ~IsSignedInt(data_parts[3]) THEN [exc |-> "ValueError", stat |-> None]
                 ELSE [exc |-> "none",
                       stat |-> Some([type |-> data_parts[1], name |-> data_parts[2],
                                      value |-> sint(data_parts[3])])]

\* _parse_radio_stats_string(stats_byte_string): the Stats tuple, None, or the
\* exception raised
_parse_radio_stats_string(stats_byte_string) ==
    LET parts == split(stats_byte_string, ":")
    IN  IF Len(parts) < 2 THEN [exc |-> "IndexError", stat |-> None]
        ELSE LET irc == strip(parts[1])
                 data == remove(strip(parts[2]), "\"")
                 data_parts == split(data, ",")
             IN  IF irc # NUESTATS THEN [exc |-> "none", stat |-> None]
                 ELSE IF Len(data_parts) < 3 THEN [exc |-> "IndexError", stat |-> None]
                 ELSE IF ~IsSignedInt(data_parts[3]) THEN [exc |-> "ValueError", stat |-> None]
                 ELSE [exc |-> "none",
                       stat |-> Some([type |-> data_parts[1], name |-> data_parts[2],
                                      value |-> sint(data_parts[3])])]

\* stat.value / 10: the quotient, kept as numerator and denominator
Div10(value) == <<value, 10>>

\* the if/elif chain of _parse_radio_stats for one stat
stat_update(s, stat) ==
    CASE stat.type = RADIO /\ stat.name = <<"S", "i", "g", "n", "a", "l", " ", "p", "o", "w", "e", "r">> -> [s EXCEPT !.radio_signal_power = Some(Div10(stat.value))]
      [] stat.type = RADIO /\ stat.name = <<"T", "o", "t", "a", "l", " ", "p", "o", "w", "e", "r">> -> [s EXCEPT !.radio_total_power = Some(Div10(stat.value))]
      [] stat.type = RADIO /\ stat.name = <<"T", "X", " ", "p", "o", "w", "e", "r">> -> [s EXCEPT !.radio_tx_power = Some(Div10(stat.value))]
      [] stat.type = RADIO /\ stat.name = <<"T", "X", " ", "t", "i", "m", "e">> -> [s EXCEPT !.radio_tx_time = Some(stat.value)]
      [] stat.type = RADIO /\ stat.name = <<"R", "X", " ", "t", "i", "m", "e">> -> [s EXCEPT !.radio_rx_time = Some(stat.value)]
      [] stat.type = RADIO /\ stat.name = <<"C", "e", "l", "l", " ", "I", "D">> -> [s EXCEPT !.radio_cell_id = Some(stat.value)]
      [] stat.type = RADIO /\ stat.name = <<"E", "C", "L">> -> [s EXCEPT !.radio_ecl = Some(stat.value)]
      [] stat.type = RADIO /\ stat.name = <<"S", "N", "R">> -> [s EXCEPT !.radio_snr = Some(stat.value)]
      [] stat.type = RADIO /\ stat.name = <<"E", "A", "R", "F", "C", "N">> -> [s EXCEPT !.radio_earfcn = Some(stat.value)]
      [] stat.type = RADIO /\ stat.name = <<"P", "C", "I">> -> [s EXCEPT !.radio_pci = Some(stat.value)]
      [] stat.type = RADIO /\ stat.name = <<"R", "S", "R", "Q">> -> [s EXCEPT !.radio_rsrq = Some(stat.value)]
      [] OTHER -> s

\* the for loop of _parse_radio_stats over the parsed items
RECURSIVE stats_loop(_, _)
stats_loop(s, stats) ==
    IF stats = <<>> THEN s
    ELSE IF Head(stats).stat = None THEN stats_loop(s, Tail(stats))
    ELSE stats_loop(stat_update(s, Head(stats).stat[1]), Tail(stats))

\* _parse_radio_stats(irc_buffer): every item is parsed before any field is
\* written; the first item that does not parse raises
_parse_radio_stats(s, irc_buffer) ==
    LET stats == [i \in 1..Len(irc_buffer) |-> _parse_radio_stats_string(irc_buffer[i])]
        bad == {i \in 1..Len(stats) : stats[i].exc # "none"}
    IN  IF bad # {}
        THEN DoRaise(s, stats[CHOOSE i \in bad : \A j \in bad : i <= j].exc, None)
        ELSE DoReturn(stats_loop(s, stats), None)

\* update_radio_statistics() up to its command, and after it returned
update_radio_statistics_begin(s) == DoAt(s, AT_RADIO_INFORMATION, AtTimeout, FALSE)
update_radio_statistics_after(s, radio_data) == _parse_radio_stats(s, radio_data)

(* ------------------------------------------------------------------ *)
(* State                                                               *)
(* ------------------------------------------------------------------ *)
VARIABLES
    self,          \* the SaraN211Module object
    pc,            \* "idle", "write" (in _write), "read" (in the wait loop), "done"
    call,          \* the public operation in progress (or the last one)
    step,          \* how many waits of the operation have returned
    at_command,    \* argument of the _at_action in progress
    slice,         \* arguments and locals of _read_line_until_contains
    capture_urc,
    timeout,
    elapsed,       \* time.time() - start_time
    data_list,
    irc_list,
    result,        \* how the operation ended: kind "return" or an exception class
    written,       \* what the operation has passed to serial.write
    rx,            \* what the last serial.read_until returned (ack of _write, data
                   \* of the loop), or SerialTimeoutException when it raised
    passes,        \* passes of the wait loop in progress that left it going
    nurc,          \* unsolicited notifications read so far
    input_buffer,  \* data the modem sent too late for the operation it answers,
                   \* waiting in the serial port for the next read_until
    dispatched,    \* history: descriptors appended to available_messages
    fetched        \* history: descriptors the AT+NSORF commands referred to

vars == <<self, pc, call, step, at_command, slice, capture_urc, timeout, elapsed,
          data_list, irc_list, result, written, rx, passes, nurc,
          input_buffer, dispatched, fetched>>

\* entry is the module as it was when the operation was called
NoCall == [name |-> "none", cmd |-> <<>>, timeout |-> 0, capture_urc |-> FALSE,
           operator |-> 0, roaming |-> FALSE,
           port |-> 0, socket_type |-> <<>>, socket_id |-> 0, ip |-> <<>>,
           entry |-> <<>>]
NoResult == [kind |-> "none", value |-> None]
SerialTimeoutException == <<"SerialTimeoutException">>

(* ------------------------------------------------------------------ *)
(* The transport and the clock                                         *)
(* ------------------------------------------------------------------ *)
\* Time between two readings of the clock in a wait loop: none that matters,
\* or a pause longer than every timeout of the module
Stall == CopsTimeout + 1
Delays == {0, Stall}

\* the lines the modem sends in answer to a command, before its OK; the
\* command of Commands stands for those of the thin wrappers, some of which
\* are answered with lines of text
Solicited(cmd) ==
    CASE cmd = AT_CGPADDR -> {b_CGPADDR}
      [] cmd = AT_CGDCONT_Q -> {b_CGDCONT}
      [] cmd = AT_CGSN_1 -> {b_CGSN}
      [] cmd = AT_CCID -> {b_CCID}
      [] cmd = AT_CIMI -> {b_0}
      [] cmd = AT_ENABLE_NETWORK_REGISTRATION -> {b_0, b_TOKEN}
      [] startswith(cmd, AT_NSOCR) -> {b_0, b_1}
      [] startswith(cmd, AT_NSORF_PREFIX) -> {b_NSORF}
      [] cmd = AT_REBOOT -> {b_REBOOTING}
      [] cmd = AT_RADIO_INFORMATION -> {b_STAT_signal, b_STAT_ecl, b_STAT_rsrp,
                                        b_STAT_other, b_0}
      [] OTHER -> {}
\* the notifications the modem sends on its own
Unsolicited == {b_CSCON_1, b_CSCON_0, b_CEREG_1, b_CEREG_5, b_NSONMI, b_NPSMR}
\* the notifications of inbound messages, with descriptors that differ
Inbound == {b_NSONMI_1, b_NSONMI_2}
\* what a line read in a wait loop may be while cmd is in flight
Lines(cmd) ==
    {b_OK, b_ERROR, b_blank, b_CME_ERROR} \cup Unsolicited \cup Solicited(cmd)
\* what serial.read_until() returns in the loop: a line with its ending, or
\* nothing when the read timed out
ReadData(cmd) == {l \o CRLF : l \in Lines(cmd)} \cup {<<>>}

\* what serial.read_until() returns to _write for command data
AckData(data) ==
    { CRLF,                                   \* the acknowledgment
      data \o <<"\r">> \o CRLF,               \* echo and acknowledgment
      <<"X">> \o PyFrom(data, 1) \o <<"\r">> \o CRLF,  \* a corrupted echo
      b_CSCON_1 \o CRLF,                      \* a notification
      <<>> }                                  \* the read timed out

Operators == {0, 24001}
Commands == {AT_ENABLE_NETWORK_REGISTRATION}

Init ==
    /\ \E roaming \in BOOLEAN, echo \in BOOLEAN : self = __init__(roaming, echo)
    /\ pc = "idle"
    /\ call = NoCall
    /\ step = 0
    /\ at_command = <<>>
    /\ slice = <<>>
    /\ capture_urc = FALSE
    /\ timeout = 0
    /\ elapsed = 0
    /\ data_list = <<>>
    /\ irc_list = <<>>
    /\ result = NoResult
    /\ written = <<>>
    /\ rx = <<>>
    /\ passes = 0
    /\ nurc = 0
    /\ input_buffer = <<>>
    /\ dispatched = <<>>
    /\ fetched = <<>>

(* ------------------------------------------------------------------ *)
(* Carrying out what an operation does next                            *)
(* ------------------------------------------------------------------ *)
\* i is a Do-record; the locals of a finished wait stay as they were when
\* the operation ends, and are initialised when a wait begins
Perform(i, dl, irc, el) ==
    /\ self' = i.self
    /\ CASE i.do = "at" ->
              /\ pc' = "write"
              /\ at_command' = i.cmd
              /\ slice' = i.slice
              /\ capture_urc' = i.capture
              /\ timeout' = i.timeout
              /\ data_list' = <<>>
              /\ irc_list' = <<>>
              /\ elapsed' = 0
              /\ passes' = 0
              /\ result' = NoResult
         [] i.do = "wait" ->
              /\ pc' = "read"
              /\ at_command' = <<>>
              /\ slice' = i.slice
              /\ capture_urc' = i.capture
              /\ timeout' = i.timeout
              /\ data_list' = <<>>
              /\ irc_list' = <<>>
              /\ elapsed' = 0
              /\ passes' = 0
              /\ result' = NoResult
         [] OTHER ->
              /\ pc' = "done"
              /\ result' = [kind |-> i.exc, value |-> i.value]
              /\ data_list' = dl
              /\ irc_list' = irc
              /\ elapsed' = el
              /\ UNCHANGED <<at_command, slice, capture_urc, timeout, passes>>

\* the caller's code after a wait returned irc
After(s, irc) ==
    CASE call.name = "_at_action" -> at_action_after(s, irc)
      [] call.name = "connect" -> connect_after(s, step, irc, call.roaming)
      [] call.name = "create_socket" -> create_socket_after(s, irc)
      [] call.name = "close_socket" -> close_socket_after(s, call.socket_id, irc)
      [] call.name = "receive_udp_data" -> receive_udp_data_after(s, step, irc)
      [] call.name = "ping" -> ping_after(s, step, irc)
      [] call.name = "reboot" -> reboot_after(s)
      [] call.name = "update_radio_statistics" -> update_radio_statistics_after(s, irc)
      [] OTHER -> DoReturn(s, None)

(* ------------------------------------------------------------------ *)
(* Actions                                                             *)
(* ------------------------------------------------------------------ *)
CanCall == pc \in {"idle", "done"}

\* _at_action(at_command, timeout, capture_urc) called on its own, as the thin
\* public wrappers (enable_network_registration, send_udp_data, ...) do
Call_at_action(cmd, tmo, cap) ==
    /\ CanCall
    /\ call' = [NoCall EXCEPT !.entry = self, !.name = "_at_action", !.cmd = cmd,
                              !.timeout = tmo, !.capture_urc = cap]
    /\ step' = 0
    /\ written' = <<>>
    /\ rx' = <<>>
    /\ UNCHANGED <<nurc, input_buffer, dispatched, fetched>>
    /\ Perform(DoAt(self, cmd, tmo, cap), <<>>, <<>>, 0)

Call_connect(operator, roaming) ==
    /\ CanCall
    /\ call' = [NoCall EXCEPT !.entry = self, !.name = "connect", !.operator = operator,
                              !.roaming = roaming]
    /\ step' = 0
    /\ written' = <<>>
    /\ rx' = <<>>
    /\ UNCHANGED <<nurc, input_buffer, dispatched, fetched>>
    /\ Perform(connect_begin(self, operator, roaming), <<>>, <<>>, 0)

Call_create_socket(port, socket_type) ==
    /\ CanCall
    /\ call' = [NoCall EXCEPT !.entry = self, !.name = "create_socket", !.port = port,
                              !.socket_type = socket_type]
    /\ step' = 0
    /\ written' = <<>>
    /\ rx' = <<>>
    /\ UNCHANGED <<nurc, input_buffer, dispatched, fetched>>
    /\ Perform(create_socket_begin(self, port, socket_type), <<>>, <<>>, 0)

Call_close_socket(socket_id) ==
    /\ CanCall
    /\ call' = [NoCall EXCEPT !.entry = self, !.name = "close_socket", !.socket_id = socket_id]
    /\ step' = 0
    /\ written' = <<>>
    /\ rx' = <<>>
    /\ UNCHANGED <<nurc, input_buffer, dispatched, fetched>>
    /\ Perform(close_socket_begin(self, socket_id), <<>>, <<>>, 0)

Call_receive_udp_data ==
    /\ CanCall
    /\ call' = [NoCall EXCEPT !.entry = self, !.name = "receive_udp_data"]
    /\ step' = 0
    /\ written' = <<>>
    /\ rx' = <<>>
    /\ UNCHANGED <<nurc, input_buffer, dispatched, fetched>>
    /\ Perform(receive_udp_data_begin(self), <<>>, <<>>, 0)

Call_ping(ip) ==
    /\ CanCall
    /\ call' = [NoCall EXCEPT !.entry = self, !.name = "ping", !.ip = ip]
    /\ step' = 0
    /\ written' = <<>>
    /\ rx' = <<>>
    /\ UNCHANGED <<nurc, input_buffer, dispatched, fetched>>
    /\ Perform(ping_begin(self, ip), <<>>, <<>>, 0)

Call_reboot ==
    /\ CanCall
    /\ call' = [NoCall EXCEPT !.entry = self, !.name = "reboot"]
    /\ step' = 0
    /\ written' = <<>>
    /\ rx' = <<>>
    /\ UNCHANGED <<nurc, input_buffer, dispatched, fetched>>
    /\ Perform(reboot_begin(self), <<>>, <<>>, 0)

Call_update_radio_statistics ==
    /\ CanCall
    /\ call' = [NoCall EXCEPT !.entry = self, !.name = "update_radio_statistics"]
    /\ step' = 0
    /\ written' = <<>>
    /\ rx' = <<>>
    /\ UNCHANGED <<nurc, input_buffer, dispatched, fetched>>
    /\ Perform(update_radio_statistics_begin(self), <<>>, <<>>, 0)

\* The modem sends the lines of a command whose wait has timed out: they stay
\* in the serial port.
Late(lines) ==
    /\ pc = "done"
    /\ result.kind = "ATTimeoutError"
    /\ input_buffer = <<>>
    /\ input_buffer' = lines
    /\ UNCHANGED <<self, pc, call, step, at_command, slice, capture_urc, timeout,
                   elapsed, data_list, irc_list, result, written, rx, passes, nurc,
                   dispatched, fetched>>

\* serial.read_until() returns data: the oldest data waiting in the serial
\* port when there is any, else what the modem sends now (or nothing)
PortHas(data) == input_buffer # <<>> => data = Head(input_buffer)
PortRest == IF input_buffer # <<>> THEN Tail(input_buffer) ELSE <<>>
FromPort(data) == PortHas(data) /\ input_buffer' = PortRest

\* the step issues an AT+NSORF command, which refers to a descriptor
Fetches == pc' = "write" /\ startswith(at_command', AT_NSORF_PREFIX)

\* _write(at_command): serial.write, then the read of the acknowledgment
Write(ack) ==
    /\ pc = "write"
    /\ written' = Append(written, data_to_send_of(at_command))
    /\ FromPort(ack)
    /\ rx' = ack
    /\ LET w == _write(self.echo, at_command, ack)
       IN  IF w.exc # "none"
           THEN Perform(DoRaise(self, w.exc, w.arg), data_list, irc_list, elapsed)
           ELSE /\ pc' = "read"
                /\ UNCHANGED <<self, at_command, slice, capture_urc, timeout,
                               elapsed, data_list, irc_list, passes, result>>
    /\ UNCHANGED <<call, step, nurc, dispatched, fetched>>

\* The clock may stall at any pass; a pass that leaves the wait going finds
\* the clock where it was only MaxReads times in a wait.
\* The answer to the statistics command has up to MaxStatLines lines.
PassBound == IF call.name = "update_radio_statistics" THEN MaxStatLines ELSE MaxReads
ClockGuard(d, going) == d \in Delays /\ (d # Stall /\ going => passes < PassBound)

\* one pass of the wait loop for data read from the transport
Read(data, d) ==
    /\ pc = "read"
    /\ LET unsolicited == _remove_line_ending(data) \in Unsolicited
       IN  /\ unsolicited => nurc < MaxUrc
           /\ nurc' = IF unsolicited THEN nurc + 1 ELSE nurc
    /\ _remove_line_ending(data) \in Inbound => Len(dispatched) < MaxMsg
    /\ rx' = data
    /\ \E duration \in {elapsed + d} :
       \E o \in {loop_body(self, slice, capture_urc, timeout, irc_list, data_list,
                           data, duration)} :
           /\ ClockGuard(d, o.ctl = "continue")
           /\ dispatched' =
                 IF Len(o.self.available_messages) > Len(self.available_messages)
                 THEN Append(dispatched, Last(o.self.available_messages))
                 ELSE dispatched
           /\ PortHas(data)
           /\ input_buffer' = IF o.ctl = "break" /\ call.name = "reboot"
                               THEN <<>>     \* flushInput()
                               ELSE PortRest
           /\ CASE o.ctl = "raise" ->
                     /\ Perform(DoRaise(o.self, o.exc, o.arg), o.data_list, o.irc_list, duration)
                     /\ UNCHANGED step
                [] o.ctl = "break" ->
                     /\ Perform(After(o.self, o.irc_list), o.data_list, o.irc_list, duration)
                     /\ step' = step + 1
                [] OTHER ->
                     /\ self' = o.self
                     /\ irc_list' = o.irc_list
                     /\ data_list' = o.data_list
                     /\ elapsed' = duration
                     /\ passes' = passes + 1
                     /\ UNCHANGED <<pc, step, at_command, slice, capture_urc, timeout, result>>
    /\ fetched' = IF Fetches THEN Append(fetched, PyFrom(at_command', Len(AT_NSORF_PREFIX)))
                  ELSE fetched
    /\ UNCHANGED <<call, written>>

\* one pass of the wait loop in which serial.read_until raised
\* SerialTimeoutException
ReadTimeout(d) ==
    /\ pc = "read"
    /\ input_buffer = <<>>
    /\ rx' = SerialTimeoutException
    /\ LET duration == elapsed + d
           going == loop_except(timeout, duration) = "continue"
       IN  /\ ClockGuard(d, going)
           /\ IF ~going
              THEN Perform(DoRaise(self, "ATTimeoutError", None), data_list, irc_list, duration)
              ELSE /\ elapsed' = duration
                   /\ passes' = passes + 1
                   /\ UNCHANGED <<self, pc, at_command, slice, capture_urc, timeout,
                                  data_list, irc_list, result>>
    /\ UNCHANGED <<call, step, written, nurc, input_buffer, dispatched, fetched>>

Next ==
    \/ \E cmd \in Commands, cap \in BOOLEAN : Call_at_action(cmd, AtTimeout, cap)
    \/ \E operator \in Operators, roaming \in BOOLEAN : Call_connect(operator, roaming)
    \/ \E ack \in AckData(at_command) : Write(ack)
    \/ \E data \in ReadData(at_command), d \in Delays : Read(data, d)
    \/ \E d \in Delays : ReadTimeout(d)

Spec == Init /\ [][Next]_vars

\* The socket table and reboot: sockets are opened and closed, the module is
\* rebooted, and identity and address are read with their commands.
Ports == {0, 7}
SocketTypes == {UDP, <<"u", "d", "p">>, TCP}
SocketIds == {0, 1}
StatusCommands == {AT_CGSN_1, AT_CGPADDR}

SockData(cmd) ==
    {l \o CRLF : l \in {b_OK, b_ERROR, b_blank, b_CEREG_1, b_CSCON_1, b_NSONMI}
                        \cup Solicited(cmd)}

NextSock ==
    \/ \E cmd \in StatusCommands : Call_at_action(cmd, AtTimeout, FALSE)
    \/ \E port \in Ports, socket_type \in SocketTypes : Call_create_socket(port, socket_type)
    \/ \E socket_id \in SocketIds : Call_close_socket(socket_id)
    \/ Call_reboot
    \/ \E ack \in {CRLF, <<>>} : Write(ack)
    \/ \E data \in SockData(at_command), d \in Delays : Read(data, d)
    \/ \E d \in Delays : ReadTimeout(d)

InitSock == Init /\ self.echo = FALSE /\ self.roaming = FALSE

SpecSock == InitSock /\ [][NextSock]_vars

\* Inbound messages: messages are announced while a command or a receive is
\* in progress, received, and the module is rebooted.
RecvCommands == {AT_CEREG_Q}

RecvData(cmd) ==
    {l \o CRLF : l \in {b_OK, b_ERROR, b_blank} \cup Inbound \cup Solicited(cmd)}

NextRecv ==
    \/ \E cmd \in RecvCommands : Call_at_action(cmd, AtTimeout, FALSE)
    \/ Call_receive_udp_data
    \/ Call_reboot
    \/ \E ack \in {CRLF, <<>>} : Write(ack)
    \/ \E data \in RecvData(at_command), d \in Delays : Read(data, d)
    \/ \E d \in Delays : ReadTimeout(d)

SpecRecv == InitSock /\ [][NextRecv]_vars

\* Ping: the remote host is pinged; the modem answers the command and then
\* reports the result, reports an error, or reports nothing.
ip_1 == <<"1", ".", "1", ".", "1", ".", "1">>
Ips == {ip_1}
\* the command, sent back by the modem as a line
b_NPING_echo == AT_NPING_PREFIX \o ip_1 \o <<"\"">>

PingData ==
    {l \o CRLF : l \in {b_OK, b_ERROR, b_blank, b_CSCON_1, b_CME_ERROR, b_NPING,
                        b_NPINGERR_1, b_NPING_echo}}

NextPing ==
    \/ \E ip \in Ips : Call_ping(ip)
    \/ \E ack \in {CRLF, <<>>} : Write(ack)
    \/ \E data \in PingData, d \in Delays : Read(data, d)
    \/ \E d \in Delays : ReadTimeout(d)

SpecPing == InitSock /\ [][NextPing]_vars

\* Late answers: a command times out, the modem sends its answer afterwards,
\* and another command is executed.
LateCommands == {AT_CIMI, AT_CEREG_Q}
\* what the modem sends late: the rest of the answer to the command that
\* timed out, terminator included
LateLines == {<<b_OK \o CRLF>>, <<b_0 \o CRLF, b_OK \o CRLF>>, <<CRLF, b_OK \o CRLF>>}
\* what read_until() can return: the oldest data waiting, else fresh data
Port(fresh) == IF input_buffer # <<>> THEN {Head(input_buffer)} ELSE fresh

LateData(cmd) ==
    {l \o CRLF : l \in {b_OK, b_ERROR, b_blank, b_CSCON_1, b_CEREG_1} \cup Solicited(cmd)}

NextLate ==
    \/ \E cmd \in LateCommands : Call_at_action(cmd, AtTimeout, FALSE)
    \/ \E lines \in LateLines : Late(lines)
    \/ \E ack \in Port({CRLF, <<>>}) : Write(ack)
    \/ \E data \in Port(LateData(at_command)), d \in Delays : Read(data, d)
    \/ \E d \in Delays : ReadTimeout(d)

SpecLate == InitSock /\ [][NextLate]_vars

\* Radio statistics: the statistics are refreshed, the answer holding lines
\* with recognized names, an unrecognized name, another tag, and no tag.
StatData(cmd) == {l \o CRLF : l \in {b_OK, b_ERROR} \cup Solicited(cmd)}

NextStat ==
    \/ Call_update_radio_statistics
    \/ \E ack \in {CRLF, <<>>} : Write(ack)
    \/ \E data \in StatData(at_command), d \in Delays : Read(data, d)
    \/ \E d \in Delays : ReadTimeout(d)

SpecStat == InitSock /\ [][NextStat]_vars

(* ------------------------------------------------------------------ *)
(* Properties                                                          *)
(* ------------------------------------------------------------------ *)
Front(q) == SubSeq(q, 1, Len(q) - 1)
IsNotification(l) == l # <<>> /\ Head(l) = "+"

\* A step that leaves a state in a wait loop is one pass of that loop.
LoopPass == pc = "read"
\* the pass is for data the transport returned; line_read' is its line
LoopRead == LoopPass /\ rx' # SerialTimeoutException
line_read == _remove_line_ending(rx)

\* the lines an execute gives back for the lines it read before the terminator
Retained(ls, capture) ==
    SelectSeq(ls, LAMBDA l : l # <<>> /\ (capture \/ ~IsNotification(l)))

C2_OnlyOkEndsExecute ==
    (pc = "done" /\ call.name = "_at_action" /\ result.kind = "return")
        => (data_list # <<>> /\ Last(data_list) = b_OK)

\* the Module State fields a notification identifier owns
Owner(id) ==
    CASE id = id_CSCON -> {"connected"}
      [] id = id_CEREG -> {"registration_status"}
      [] id = id_CGPADDR -> {"ip"}
      [] id = id_NSONMI -> {"available_messages"}
      [] id = id_CGDCONT -> {"apn"}
      [] id = id_CGSN -> {"imei"}
      [] id = id_CCID -> {"iccid"}
      [] OTHER -> {}

\* the owned field shows that the callback of the identifier ran
Dispatched(id, before, after, l) ==
    CASE id = id_CEREG -> after.registration_status = DigitVal(Last(l))
      [] id = id_CGPADDR -> after.ip # None
      [] id = id_NSONMI ->
            Len(after.available_messages) = Len(before.available_messages) + 1
      [] id = id_CGDCONT -> after.apn # None
      [] id = id_CGSN -> after.imei # None
      [] id = id_CCID -> after.iccid # None
      [] OTHER -> TRUE

\* C3: every notification line read in a wait loop is dispatched, with or
\* without capture_urc, and the pass changes no Module State field other than
\* the one its identifier owns; an identifier without a callback changes none.
C3_DispatchFrame ==
    [][ (LoopRead /\ IsNotification(line_read'))
          => LET id == urc_id_of(line_read')
             IN  /\ \A f \in Fields : self'[f] # self[f] => f \in Owner(id)
                 /\ Dispatched(id, self, self', line_read') ]_vars

\* an inbound-message notification was captured and also dispatched
C3_Witness ==
    /\ pc = "read" /\ capture_urc
    /\ line_read = b_NSONMI
    /\ irc_list = <<b_NSONMI>>
    /\ self.available_messages = <<<<"0", ",", "4">>>>

\* C4: a line with prefix ERROR read in the wait of an _at_action ends the
\* operation with ATError carrying the line: nothing more is read and no
\* collected line is returned.
C4_ErrorTerminator ==
    [][ (LoopRead /\ slice = b_OK /\ startswith(line_read', b_ERROR))
          => /\ pc' = "done"
             /\ result'.kind = "ATError"
             /\ endswith(result'.value, line_read') ]_vars

\* ERROR arrived after a response line had been collected
C4_Witness ==
    /\ pc = "done" /\ call.name = "_at_action"
    /\ result.kind = "ATError"
    /\ irc_list = <<b_0>>
    /\ line_read = b_ERROR

\* a pass of the loop ends the wait by itself: the line holds the awaited
\* text, has the prefix ERROR, or is a notification whose callback raises
EndsWait(s, sl, l) ==
    \/ contains(sl, l)
    \/ ~IsNotification(l) /\ l # b_OK /\ startswith(l, b_ERROR)
    \/ IsNotification(l) /\ _process_urc(s, l).exc # "none"

\* C5 as claimed: an execute that reads neither a success terminator (taken
\* here, as the loop takes it, to be any line holding OK) nor an ERROR line
\* fails with ATTimeoutError at the first pass that finds the timeout exceeded.
C5_TimeoutUnlessTerminator ==
    [][ (LoopPass /\ call.name = "_at_action" /\ pc' = "done" /\ elapsed' > timeout
         /\ ~contains(b_OK, line_read') /\ ~startswith(line_read', b_ERROR))
          => result'.kind = "ATTimeoutError" ]_vars

\* C5 amended: no wait loop goes on once a pass has found the timeout
\* exceeded, and the pass that finds it ends the operation with ATTimeoutError
\* unless its line ends the wait by itself (awaited text, ERROR prefix, or a
\* notification whose callback raises).
C5_TimeoutAtFirstExpiredPass ==
    [][ /\ (pc' = "read" => elapsed' <= timeout')
        /\ (LoopPass /\ pc' = "done" /\ elapsed' > timeout
            /\ (rx' # SerialTimeoutException => ~EndsWait(self, slice, line_read')))
              => result'.kind = "ATTimeoutError" ]_vars

\* an execute timed out on a blank line after it had read another line
C5_Witness ==
    /\ pc = "done" /\ call.name = "_at_action"
    /\ result.kind = "ATTimeoutError"
    /\ Len(data_list) = 2 /\ Last(data_list) = <<>>
    /\ elapsed > timeout

\* C6: a +CME ERROR notification read in any wait loop ends the public
\* operation with CMEError carrying the raw line, nothing more is read, and
\* the module keeps what earlier notifications wrote.
C6_HardwareErrorAborts ==
    [][ (LoopRead /\ IsNotification(line_read') /\ urc_id_of(line_read') = id_CME_ERROR)
          => /\ pc' = "done"
             /\ result' = [kind |-> "CMEError", value |-> line_read']
             /\ self' = self ]_vars

\* +CME ERROR arrived after a registration-status notification was dispatched
C6_Witness ==
    /\ pc = "done"
    /\ result = [kind |-> "CMEError", value |-> b_CME_ERROR]
    /\ data_list = <<b_CEREG_1>>
    /\ self.registration_status = 1

\* C7: with echo on, when what is read back after the write does not begin
\* with the command sent, the operation ends with ValueError: the command was
\* written once, no wait loop was entered and the module is unchanged.
C7_EchoMismatch ==
    [][ (pc = "write" /\ self.echo /\ written' # written
         /\ ~startswith(rx', at_command \o <<"\r">>))
          => /\ pc' = "done"
             /\ result'.kind = "ValueError"
             /\ written' = Append(written, at_command \o CRLF)
             /\ self' = self ]_vars

\* a corrupted echo of the right length was rejected
C7_Witness ==
    /\ pc = "done" /\ self.echo
    /\ result.kind = "ValueError"
    /\ rx = <<"X">> \o PyFrom(at_command, 1) \o <<"\r">> \o CRLF
    /\ Len(written) = 1 /\ data_list = <<>>

\* C8: a +CSCON notification sets connected to the truth value of its last
\* digit.
C8_ConnectionStatusDigit ==
    [][ (LoopRead /\ IsNotification(line_read') /\ urc_id_of(line_read') = id_CSCON)
          => self'.connected = (DigitVal(Last(line_read')) # 0) ]_vars

\* C9: connect called while registered writes nothing, reads nothing and
\* leaves the module unchanged, whatever its arguments.
C9_ConnectWhenRegistered ==
    [][ (CanCall /\ call'.name = "connect" /\ registered(self))
          => /\ pc' = "done"
             /\ result' = [kind |-> "return", value |-> None]
             /\ written' = <<>>
             /\ rx' = <<>>
             /\ self' = self ]_vars

\* connect(24001, roaming=True) returned at once on a registered home module
C9_Witness ==
    /\ pc = "done" /\ call.name = "connect"
    /\ call.operator = 24001 /\ call.roaming /\ ~self.roaming
    /\ registered(self)
    /\ written = <<>> /\ rx = <<>>
    /\ result.kind = "return"

\* C10: a timeout of the wait of _await_connection ends connect with
\* ConnectionTimeoutError.
C10_ConnectionTimeoutKind ==
    (pc = "done" /\ call.name = "connect" /\ step = 1
     /\ IsInstance(result.kind, "ATTimeoutError"))
        => result.kind = "ConnectionTimeoutError"

\* C11: in every state registered is true exactly when the registration status
\* is 5 on a module in roaming mode and 1 on a module that is not; after a
\* '+CEREG: 1' notification registered is true without roaming and false with it.
C11_RegisteredIffExpectedCode ==
    /\ registered(self) <=> (self.registration_status = IF self.roaming THEN 5 ELSE 1)
    /\ line_read = b_CEREG_1
          => /\ self.registration_status = 1
             /\ registered(self) <=> ~self.roaming

\* a module in roaming mode read '+CEREG: 1' in a wait: the status is 1 and
\* the module is not registered
C11_Witness ==
    /\ self.roaming
    /\ pc = "read" /\ line_read = b_CEREG_1
    /\ self.registration_status = 1
    /\ ~registered(self)

\* C14: close_socket on an id that is not in the socket table fails with
\* ValueError (the unknown-socket error), writes no command and leaves the
\* module, its socket table included, as it was.
C14_CloseUnknownSocket ==
    [][ (CanCall /\ call'.name = "close_socket" /\ call'.socket_id \notin self.sockets)
          => /\ pc' = "done"
             /\ result'.kind = "ValueError"
             /\ written' = <<>>
             /\ rx' = <<>>
             /\ self' = self ]_vars

\* close_socket(1) failed while socket 0 was open, and socket 0 still is
C14_Witness ==
    /\ pc = "done" /\ call.name = "close_socket"
    /\ call.socket_id = 1 /\ self.sockets = {0}
    /\ result.kind = "ValueError"
    /\ written = <<>>

\* C15 as stated: once the command of a close_socket has completed, with
\* success or with a failure, the id is no longer in the socket table.
C15_CloseRemovesAlways ==
    (pc = "done" /\ call.name = "close_socket" /\ written # <<>>)
        => call.socket_id \notin self.sockets

\* C15 amended: close_socket on an id of the table writes one socket-close
\* command for that id; the id has left the table when the command returned
\* normally, and is still in it when the command failed (error terminator,
\* timeout, bad acknowledgment).
C15_CloseRemovesOnSuccess ==
    (pc = "done" /\ call.name = "close_socket" /\ written # <<>>)
        => /\ written = <<AT_CLOSE_SOCKET \o <<"=">> \o str(call.socket_id) \o CRLF>>
           /\ result.kind = "return" => call.socket_id \notin self.sockets
           /\ result.kind # "return" => call.socket_id \in self.sockets

\* the command of close_socket(0) was answered with ERROR: the operation
\* failed with ATError and socket 0 is still in the table
C15_Witness ==
    /\ pc = "done" /\ call.name = "close_socket" /\ call.socket_id = 0
    /\ written # <<>> /\ line_read = b_ERROR
    /\ result.kind = "ATError"
    /\ 0 \in self.sockets

\* the socket type is UDP in some mix of upper and lower case
IsUdp(socket_type) ==
    /\ Len(socket_type) = 3
    /\ socket_type[1] \in {"U", "u"}
    /\ socket_type[2] \in {"D", "d"}
    /\ socket_type[3] \in {"P", "p"}

\* C16: create_socket with a socket type other than UDP, compared without
\* regard to case, fails with ValueError (the unsupported-protocol error)
\* before any command is written, and leaves the module, its socket table
\* included, as it was.
C16_UnsupportedSocketType ==
    [][ (CanCall /\ call'.name = "create_socket" /\ ~IsUdp(call'.socket_type))
          => /\ pc' = "done"
             /\ result'.kind = "ValueError"
             /\ written' = <<>>
             /\ rx' = <<>>
             /\ self' = self ]_vars

\* create_socket(7, "TCP") failed while socket 0 was open: nothing was written
\* and the table still holds socket 0 only
C16_Witness ==
    /\ pc = "done" /\ call.name = "create_socket"
    /\ call.socket_type = TCP /\ call.port = 7
    /\ result.kind = "ValueError"
    /\ written = <<>>
    /\ self.sockets = {0}

\* the step in which reboot returns normally
RebootReturns ==
    /\ pc = "read" /\ call.name = "reboot"
    /\ pc' = "done" /\ result'.kind = "return"

\* the fields _reset_after_reboot assigns
ResetFields == {"registration_status", "connected", "ip", "sockets", "available_messages"}

\* C19 as stated: after reboot returns normally every field of the module
\* state has its default: the identity fields, the APN and the radio
\* statistics are absent too.
C19_RebootResetsAll ==
    [][ RebootReturns => self' = __init__(self.roaming, self.echo) ]_vars

\* C19 amended: when reboot returns normally the registration status is 0,
\* connected is false, the IP address is absent, and the socket table and the
\* queue of pending messages are empty; every other field, the identity
\* fields, the APN and the radio statistics among them, keeps its value.
C19_RebootResetsFive ==
    [][ RebootReturns
          => /\ \A f \in ResetFields : self'[f] = __init__(self.roaming, self.echo)[f]
             /\ \A f \in Fields \ ResetFields : self'[f] = self[f] ]_vars

\* reboot returned normally on a module whose IMEI had been read: the IMEI
\* is still there, the socket table is empty
C19_Witness ==
    /\ pc = "done" /\ call.name = "reboot" /\ result.kind = "return"
    /\ self.imei # None
    /\ self.sockets = {} /\ self.registration_status = 0 /\ self.ip = None

\* C12 as stated: receive_udp_data called while a descriptor is queued does
\* not wait for a notification: it pops the oldest queued descriptor and
\* writes the fetch command for it at once.
C12_ReceiveQueuedAtOnce ==
    [][ (CanCall /\ call'.name = "receive_udp_data" /\ self.available_messages # <<>>)
          => /\ pc' = "write"
             /\ at_command' = AT_NSORF_PREFIX \o Head(self.available_messages)
             /\ self'.available_messages = Tail(self.available_messages) ]_vars

\* q is what is left of d after its first n elements
IsSuffix(q, d) == \E n \in 0..Len(d) : q = SubSeq(d, n + 1, Len(d))
\* f is d without some of its elements
RECURSIVE IsSubseq(_, _)
IsSubseq(f, d) ==
    IF f = <<>> THEN TRUE
    ELSE IF d = <<>> THEN FALSE
    ELSE IF Head(f) = Head(d) THEN IsSubseq(Tail(f), Tail(d))
    ELSE IsSubseq(f, Tail(d))
\* the queue a pass of the wait loop leaves behind for the code after the wait
QueueAfterPass ==
    IF line_read' \in Inbound
    THEN Append(self.available_messages, lstrip(split(line_read', ":")[2]))
    ELSE self.available_messages

\* C13: the queue of pending messages is first in, first out. The queue is
\* always the tail end of the dispatched descriptors, in dispatch order; the
\* fetch command of a receive_udp_data refers to the oldest descriptor of the
\* queue and takes it off the queue; so the descriptors fetched are dispatched
\* descriptors in dispatch order, none fetched twice.
C13_QueueIsFifo ==
    [][ /\ IsSuffix(self'.available_messages, dispatched')
        /\ IsSubseq(fetched', dispatched')
        /\ Fetches
             => /\ QueueAfterPass # <<>>
                /\ fetched' = Append(fetched, Head(QueueAfterPass))
                /\ at_command' = AT_NSORF_PREFIX \o Head(QueueAfterPass)
                /\ self'.available_messages = Tail(QueueAfterPass) ]_vars

\* two messages were announced, the first while a command was in progress,
\* the second during the wait of receive_udp_data, whose fetch command refers
\* to the first; the second is still queued
C13_Witness ==
    /\ call.name = "receive_udp_data" /\ pc = "write"
    /\ Len(dispatched) = 2 /\ dispatched[1] # dispatched[2]
    /\ fetched = <<dispatched[1]>>
    /\ at_command = AT_NSORF_PREFIX \o dispatched[1]
    /\ self.available_messages = <<dispatched[2]>>

\* ping has had its command answered and its wait for the result has ended
\* or is still going
PingWaited == pc = "done" /\ call.name = "ping" /\ step >= 1
\* no line read in the wait contains +NPING (a +NPINGERR line contains it)
NoResultLine == \A i \in 1..Len(data_list) : ~contains(s_NPING, data_list[i])

\* C17 as stated: when neither a +NPINGERR nor a +NPING line is read in the
\* wait of 20 s, ping returns None and raises nothing.
C17_PingReturnsNoneOnSilence ==
    (PingWaited /\ NoResultLine) => result = [kind |-> "return", value |-> None]

\* C17 amended: when no line containing +NPING is read in the wait of ping,
\* ping fails: with ATTimeoutError at the pass that finds the 20 s exceeded,
\* or before that with ATError when a line with prefix ERROR is read and with
\* CMEError when a '+CME ERROR' line is read. ping returns
\* None only when the wait was ended by a line that contains +NPING and yet
\* begins with neither '+NPINGERR:' nor '+NPING:'.
C17_PingSilenceTimesOut ==
    /\ (PingWaited /\ NoResultLine)
          => /\ step = 1
             /\ result.kind = CASE startswith(line_read, b_ERROR) -> "ATError"
                                [] line_read = b_CME_ERROR -> "CMEError"
                                [] OTHER -> "ATTimeoutError"
    /\ (PingWaited /\ result = [kind |-> "return", value |-> None])
          => /\ contains(s_NPING, line_read)
             /\ ~startswith(line_read, id_NPINGERR)
             /\ ~startswith(line_read, id_NPING)

\* the command of ping was answered with OK, then only a blank line was read
\* until the 20 s had passed: ping failed with ATTimeoutError
C17_Witness ==
    /\ PingWaited /\ NoResultLine
    /\ written # <<>>
    /\ data_list = <<b_blank>>
    /\ elapsed > PingTimeout
    /\ result.kind = "ATTimeoutError"

\* the comma-separated fields of the success line that ended the wait of ping
PingFields == split(line_read, ",")
\* ping returned a pair after its wait was ended by a '+NPING:' line
PingSucceeded ==
    /\ PingWaited /\ result.kind = "return" /\ result.value # None
    /\ startswith(line_read, id_NPING)

\* C18 as stated: the pair ping returns has the 3rd field of the success
\* line first and the 2nd field second.
C18_PingPairThirdSecond ==
    PingSucceeded => result.value = Some(<<PingFields[3], PingFields[2]>>)

\* C18 amended: the pair ping returns has the 2nd field of the success line
\* first and the 3rd field second, as text: (ttl, rtt) for a line
\* '+NPING: <ip>,<ttl>,<rtt>'.
C18_PingPairSecondThird ==
    /\ PingSucceeded => result.value = Some(<<PingFields[2], PingFields[3]>>)
    /\ (PingWaited /\ startswith(line_read, id_NPING)) => PingSucceeded

\* ping returned ("57", "41") for the line '+NPING: 1.1.1.1,57,41'
C18_Witness ==
    /\ PingSucceeded
    /\ line_read = b_NPING
    /\ result.value = Some(<<<<"5", "7">>, <<"4", "1">>>>)

\* the return of None: the wait of ping was ended by the command sent back
PingNoneReached == PingWaited /\ result = [kind |-> "return", value |-> None]

\* a line of an earlier command is waiting in the serial port while a command
\* is in progress: the next read of the command in progress returns it
ReadsStaleLine == input_buffer # <<>> /\ pc \in {"write", "read"}

\* C20: a line that the modem sent for a command that timed out, read by a
\* later command, does not end that command, normally or with a failure, and
\* is not among the lines it returns.
C20_LateLinesLeaveNextCommandAlone ==
    [][ ReadsStaleLine => (pc' # "done" /\ irc_list' = irc_list) ]_vars

\* the fields the callbacks of notifications write
NotifiedFields ==
    UNION {Owner(id) : id \in {id_CSCON, id_CEREG, id_CGPADDR, id_NSONMI,
                               id_CGDCONT, id_CGSN, id_CCID}}
\* p is what q began with
IsPrefix(p, q) == Len(p) <= Len(q) /\ p = SubSeq(q, 1, Len(p))
\* a public operation has ended in a failure
Failed == pc = "done" /\ call.name # "none" /\ result.kind # "return"

\* C21: when a public operation ends in a failure, the module differs from
\* what it was when the operation was called only in fields that callbacks of
\* notifications write, and the queue of pending messages has lost no entry:
\* what it held at the call is still at its head.
C21_FailureLeavesState ==
    Failed => /\ \A f \in Fields \ NotifiedFields : self[f] = call.entry[f]
              /\ IsPrefix(call.entry.available_messages, self.available_messages)

\* update_radio_statistics has ended after its command returned the lines of
\* irc_list
StatsParsed == pc = "done" /\ call.name = "update_radio_statistics" /\ step = 1
InAnswer(l) == \E i \in 1..Len(irc_list) : irc_list[i] = l
\* the fields of the radio statistics
RadioFields ==
    {"radio_signal_power", "radio_total_power", "radio_tx_power", "radio_tx_time",
     "radio_rx_time", "radio_cell_id", "radio_ecl", "radio_snr", "radio_earfcn",
     "radio_pci", "radio_rsrq", "radio_rsrp"}

NoColonLineFails ==
    (StatsParsed /\ InAnswer(b_0))
        => /\ result.kind = "IndexError"
           /\ \A f \in RadioFields : self[f] = call.entry[f]

\* the step in which operation name returns normally
Returns(name) ==
    /\ pc = "read" /\ call.name = name
    /\ pc' = "done" /\ result'.kind = "return"

\* C23: the socket table changes in three ways only: a create_socket that
\* returns normally adds the id it returns (the id is the key of the entry), a
\* close_socket that returns normally removes its id, and a reboot that returns
\* normally empties the table. Every other step, a create_socket whose command
\* fails among them, leaves the table as it is; so the table always holds
\* exactly the ids opened and not since closed or dropped.
C23_SocketTable ==
    [][ self'.sockets =
          CASE Returns("create_socket") -> self.sockets \cup {result'.value[1]}
            [] Returns("close_socket") -> self.sockets \ {call.socket_id}
            [] Returns("reboot") -> {}
            [] OTHER -> self.sockets ]_vars

\* create_socket returned socket 1 while socket 0 was open: the table holds
\* both
C23_Witness ==
    /\ pc = "done" /\ call.name = "create_socket"
    /\ result = [kind |-> "return", value |-> Some(1)]
    /\ call.entry.sockets = {0}
    /\ self.sockets = {0, 1}

\* C24: whenever connect returns normally the module is registered, whatever
\* the roaming mode of the module and the roaming argument of connect.
C24_ConnectedMeansRegistered ==
    (pc = "done" /\ call.name = "connect" /\ result.kind = "return")
        => registered(self)

\* the registration-status notification connect waits for after its attach
\* command
ExpectedReg == IF call.roaming \/ self.roaming THEN b_CEREG_5 ELSE b_CEREG_1
\* the wait of the attach command of connect returns in this step
AttachReturns == call.name = "connect" /\ step = 0 /\ step' = 1

\* C25: when the registration-status notification with the expected code was
\* read while the attach command of connect was waiting for its OK, connect
\* goes on without waiting for another one: its next step is the first command
\* of read_module_status.
C25_EarlyRegistrationCounts ==
    [][ (AttachReturns /\ \E i \in 1..Len(data_list) : data_list[i] = ExpectedReg)
          => (pc' = "write" /\ at_command' = AT_CGPADDR) ]_vars

\* the wait of the ping command returns in this step
PingCommandReturns == call.name = "ping" /\ step = 0 /\ step' = 1
InWait(l) == \E i \in 1..Len(data_list) : data_list[i] = l

\* C26: a result notification read while the ping command was waiting for its
\* OK decides the outcome of ping: with '+NPING: 1.1.1.1,57,41' ping returns
\* ("57", "41"), with '+NPINGERR: 1' it raises PingError, and in neither case
\* does it wait for another notification.
C26_EarlyPingResultCounts ==
    [][ /\ (PingCommandReturns /\ InWait(b_NPING))
              => (pc' = "done" /\ result'.kind = "return" /\ result'.value # None)
        /\ (PingCommandReturns /\ InWait(b_NPINGERR_1))
              => (pc' = "done" /\ result'.kind = "PingError") ]_vars

\* what the first read after the write of at_command returns when the modem
\* acknowledges it: the blank line, after the echo when echo is on
Acknowledgment ==
    IF self.echo THEN at_command \o <<"\r">> \o CRLF ELSE CRLF

\* C27: the data of the first read after a command is written is taken for
\* the acknowledgment: when it is anything but the blank line (after the echo
\* when echo is on), be it a notification line or nothing at all, the
\* operation ends with ValueError in that step, the module is unchanged (the
\* line was not dispatched) and no pass of the wait loop was made.
C27_FirstLineIsAcknowledgment ==
    [][ (pc = "write" /\ written' # written /\ rx' # Acknowledgment)
          => /\ pc' = "done"
             /\ result'.kind = "ValueError"
             /\ self' = self
             /\ dispatched' = dispatched
             /\ passes' = passes /\ elapsed' = elapsed
             /\ data_list' = data_list /\ irc_list' = irc_list ]_vars

\* with echo off a '+CSCON: 1' line came where the acknowledgment was due:
\* the command failed and the module is not marked connected
C27_Witness ==
    /\ pc = "done" /\ ~self.echo
    /\ result.kind = "ValueError"
    /\ rx = b_CSCON_1 \o CRLF
    /\ self.connected = FALSE
    /\ self = call.entry
    /\ passes = 0 /\ data_list = <<>>

\* the read of the acknowledgment timed out with no data: the command failed
EmptyAckFails ==
    [][ (pc = "write" /\ rx' = <<>>) => (pc' = "done" /\ result'.kind = "ValueError") ]_vars

====
